---- MODULE Spec2Model ----
(***************************************************************************)
(* A model of jkl, a static site generator: main.go (main, watch,          *)
(* recompile, the preview handler) and site.go (Site, NewSite, Reload,     *)
(* prep, Generate, Deploy, read, writePages, writeStatic).                 *)
(*                                                                         *)
(* Paths are sequences of one-character strings, so that the string        *)
(* prefix tests of the source (strings.HasPrefix) are prefix tests here.   *)
(* The destination tree is a function from destination-relative paths to   *)
(* entries; the empty path is the destination root.                        *)
(*                                                                         *)
(* Left out: the process's working directory (a relative destination is    *)
(* resolved against the source directory, where main changes to), failures *)
(* of the disk other than those the shape of the tree causes, and the      *)
(* text of pages and templates (a rendered file is identified by its item  *)
(* and the layout that wrapped it).                                        *)
(***************************************************************************)
EXTENDS Integers, Sequences, FiniteSets, TLC

(***************************************************************************)
(* Bounds of the model.                                                    *)
(***************************************************************************)
\* number of concurrent HTTP requests served by the preview server
NumHandlers == 2
\* number of edits the user makes to the source tree while jkl is watching
MaxEdits == 1
\* largest value of the wall clock
MaxClock == 1

Handlers == 1..NumHandlers

(***************************************************************************)
(* Strings and paths.                                                      *)
(***************************************************************************)
\* the characters used in paths, in byte order
CharOrder ==
    <<".", "/", "1", "2", "_", "a", "b", "c", "d", "e", "g", "h", "i", "k", "l",
      "m", "n", "o", "p", "q", "s", "t", "x", "~">>

Rank(c) == CHOOSE i \in 1..Len(CharOrder) : CharOrder[i] = c

\* strings.HasPrefix(s, prefix)
HasPrefix(s, prefix) ==
    /\ Len(prefix) <= Len(s)
    /\ SubSeq(s, 1, Len(prefix)) = prefix

\* s < t in the byte-wise order of Go strings (sort.Strings in readDirNames)
RECURSIVE StrLess(_, _)
StrLess(s, t) ==
    IF t = <<>> THEN FALSE
    ELSE IF s = <<>> THEN TRUE
    ELSE IF Head(s) = Head(t) THEN StrLess(Tail(s), Tail(t))
    ELSE Rank(Head(s)) < Rank(Head(t))

\* filepath.Join(dir, name) for destination-relative paths; the root is <<>>
Join(dir, name) == IF dir = <<>> THEN name ELSE dir \o <<"/">> \o name

\* q lies in the subtree rooted at p (p itself included)
Under(p, q) ==
    \/ p = <<>>
    \/ q = p
    \/ /\ Len(q) > Len(p)
       /\ SubSeq(q, 1, Len(p)) = p
       /\ q[Len(p) + 1] = "/"

\* the positions of the separators of p
Seps(p) == {i \in 1..Len(p) : p[i] = "/"}

\* filepath.Dir(p) for a destination-relative path
Dir(p) ==
    IF Seps(p) = {} THEN <<>>
    ELSE SubSeq(p, 1, (CHOOSE i \in Seps(p) : \A j \in Seps(p) : j <= i) - 1)

\* filepath.Base(p)
Base(p) ==
    IF Seps(p) = {} THEN p
    ELSE SubSeq(p, (CHOOSE i \in Seps(p) : \A j \in Seps(p) : j <= i) + 1, Len(p))

\* p and all its ancestors, the root included
Ancestors(p) == {<<>>} \cup {SubSeq(p, 1, i - 1) : i \in Seps(p)} \cup {p}

(***************************************************************************)
(* The file system: a tree is a function from the paths that exist to      *)
(* entries [dir |-> BOOLEAN, content |-> ...].                             *)
(***************************************************************************)
\* what a file holds: kind is "dir", "old" (present before jkl ran), "page"
\* (a rendered item), "feed" or "static"
Content(kind, id, layout, created, entries) ==
    [kind |-> kind, id |-> id, layout |-> layout, created |-> created, entries |-> entries]

DirEntry == [dir |-> TRUE, content |-> Content("dir", 0, <<>>, 0, <<>>)]
FileEntry(c) == [dir |-> FALSE, content |-> c]
OldFile == FileEntry(Content("old", 0, <<>>, 0, <<>>))

NoTree == [p \in {} |-> DirEntry]

Restrict(t, ps) == [p \in ps |-> t[p]]

\* os.MkdirAll(p): creates p and its missing ancestors; fails when one of
\* them exists and is not a directory
MkdirAll(t, p) ==
    IF \E a \in Ancestors(p) : a \in DOMAIN t /\ ~t[a].dir
    THEN [err |-> TRUE, tree |-> t]
    ELSE [err |-> FALSE,
          tree |-> [q \in DOMAIN t \cup Ancestors(p) |->
                       IF q \in DOMAIN t THEN t[q] ELSE DirEntry]]

\* os.RemoveAll(p): removes p and everything below it; a missing p is no error
RemoveAll(t, p) == Restrict(t, {q \in DOMAIN t : ~Under(p, q)})

\* os.Remove(p): removes a file or an empty directory
Remove(t, p) ==
    IF p \in DOMAIN t /\ \A q \in DOMAIN t : Under(p, q) => q = p
    THEN [err |-> FALSE, tree |-> Restrict(t, DOMAIN t \ {p})]
    ELSE [err |-> TRUE, tree |-> t]

\* ioutil.WriteFile(p, c): creates or truncates the file p; fails when the
\* parent is not an existing directory or p is a directory
WriteFile(t, p, c) ==
    IF /\ Dir(p) \in DOMAIN t
       /\ t[Dir(p)].dir
       /\ ~(p \in DOMAIN t /\ t[p].dir)
    THEN [err |-> FALSE,
          tree |-> [q \in DOMAIN t \cup {p} |-> IF q = p THEN FileEntry(c) ELSE t[q]]]
    ELSE [err |-> TRUE, tree |-> t]

\* the entries directly inside the directory d
Children(t, d) == {q \in DOMAIN t : q # <<>> /\ q # d /\ Dir(q) = d /\ Under(d, q)}

\* the elements of a set of paths as a sequence in lexical order of their
\* base names (the order in which filepath.Walk visits a directory)
RECURSIVE SortPaths(_)
SortPaths(ps) ==
    IF ps = {} THEN <<>>
    ELSE LET m == CHOOSE p \in ps : \A q \in ps \ {p} : StrLess(Base(p), Base(q))
         IN <<m>> \o SortPaths(ps \ {m})

\* the files of the subtree rooted at d, in the order filepath.Walk visits them
RECURSIVE WalkFiles(_, _)
WalkFiles(t, d) ==
    LET RECURSIVE Each(_)
        Each(ps) ==
            IF ps = <<>> THEN <<>>
            ELSE (IF t[Head(ps)].dir THEN WalkFiles(t, Head(ps)) ELSE <<Head(ps)>>)
                 \o Each(Tail(ps))
    IN IF d \in DOMAIN t THEN Each(SortPaths(Children(t, d))) ELSE <<>>

(***************************************************************************)
(* The source tree.  The files a source tree can hold are those of the     *)
(* catalog; a source tree is the set of catalog ids present.  The class of *)
(* a file and its parsed front matter are what isTemplate, isPost, isPage, *)
(* isStatic, ParsePost and ParsePage make of it.                           *)
(***************************************************************************)
NoLayout == <<>>
HtmlExt == <<".", "h">>
IndexHtml == <<"i", "n", "d", "e", "x", ".", "h">>
feedPath == <<"a", "t", "o", "m", ".", "x", "m", "l">>

Catalog ==
    <<[rel |-> <<"_", "/", "d", ".", "h">>, class |-> "template", bad |-> FALSE, md |-> FALSE,
       layout |-> NoLayout, url |-> <<>>, date |-> 0, tags |-> <<>>, cats |-> <<>>],
      [rel |-> <<"a", "/", "2", "p">>, class |-> "post", bad |-> FALSE, md |-> TRUE,
       layout |-> <<"d">>, url |-> <<"a", "/", "p">>, date |-> 2, tags |-> <<"t">>, cats |-> <<"a">>],
      [rel |-> <<"b", "/", "1", "q">>, class |-> "post", bad |-> FALSE, md |-> TRUE,
       layout |-> NoLayout, url |-> <<"b", "/", "q">>, date |-> 1, tags |-> <<"t">>, cats |-> <<"b">>],
      [rel |-> <<"1", "c">>, class |-> "page", bad |-> TRUE, md |-> TRUE,
       layout |-> NoLayout, url |-> <<"1", "c">>, date |-> 0, tags |-> <<>>, cats |-> <<>>],
      [rel |-> <<"i">>, class |-> "page", bad |-> FALSE, md |-> FALSE,
       layout |-> NoLayout, url |-> <<"i">>, date |-> 0, tags |-> <<>>, cats |-> <<>>],
      [rel |-> <<"m">>, class |-> "page", bad |-> FALSE, md |-> TRUE,
       layout |-> <<"d">>, url |-> <<"m", "/">>, date |-> 0, tags |-> <<>>, cats |-> <<>>],
      [rel |-> <<"s">>, class |-> "static", bad |-> FALSE, md |-> FALSE,
       layout |-> NoLayout, url |-> <<"s">>, date |-> 0, tags |-> <<>>, cats |-> <<>>],
      [rel |-> <<".", "t">>, class |-> "static", bad |-> FALSE, md |-> FALSE,
       layout |-> NoLayout, url |-> <<".", "t">>, date |-> 0, tags |-> <<>>, cats |-> <<>>],
      [rel |-> <<"n">>, class |-> "page", bad |-> FALSE, md |-> TRUE,
       layout |-> <<"e">>, url |-> <<"n">>, date |-> 3, tags |-> <<>>, cats |-> <<>>]>>

Ids == 1..Len(Catalog)

IdOf(rel) == CHOOSE i \in Ids : Catalog[i].rel = rel

\* the source tree as a file system tree
RECURSIVE SrcFS(_)
SrcFS(ids) ==
    IF ids = {} THEN MkdirAll(NoTree, <<>>).tree
    ELSE LET i == CHOOSE j \in ids : TRUE
             t == SrcFS(ids \ {i})
         IN WriteFile(MkdirAll(t, Dir(Catalog[i].rel)).tree, Catalog[i].rel,
                      Content("src", i, <<>>, 0, <<>>)).tree

\* the ids of the source files in the order filepath.Walk(s.Src) visits them
RECURSIVE IdSeq(_)
IdSeq(rels) == IF rels = <<>> THEN <<>> ELSE <<IdOf(Head(rels))>> \o IdSeq(Tail(rels))

WalkSrc(ids) == IdSeq(WalkFiles(SrcFS(ids), <<>>))

\* isHiddenOrTemp(fn): the name starts with "." or ends with "~"
isHiddenOrTemp(fn) ==
    /\ Base(fn) # <<>>
    /\ \/ Head(Base(fn)) = "."
       \/ Base(fn)[Len(Base(fn))] = "~"

isTemplate(rel) == Catalog[IdOf(rel)].class = "template"
isPost(rel) == Catalog[IdOf(rel)].class = "post"
isPage(rel) == Catalog[IdOf(rel)].class = "page"
isStatic(rel) == Catalog[IdOf(rel)].class = "static"

\* ParsePost and ParsePage fail on malformed front matter
ParseFails(id) == Catalog[id].bad

\* appendExt(name, ext): name with ext appended unless it already ends in it
appendExt(name, ext) ==
    IF Len(name) >= Len(ext) /\ SubSeq(name, Len(name) - Len(ext) + 1, Len(name)) = ext
    THEN name
    ELSE name \o ext

(***************************************************************************)
(* Config (config.go): a map from keys to values.                          *)
(***************************************************************************)
\* Config.Set
Set(c, key, val) == [k \in DOMAIN c \cup {key} |-> IF k = key THEN val ELSE c[k]]

\* Config.Get(key) == nil
IsUnset(c, key) == key \notin DOMAIN c

\* Config.GetString
GetString(c, key) == IF key \in DOMAIN c THEN c[key] ELSE <<>>

\* Config.GetStrings: nil when the key is absent
GetStrings(c, key) ==
    IF key \in DOMAIN c THEN [isNil |-> FALSE, list |-> c[key]]
    ELSE [isNil |-> TRUE, list |-> <<>>]

(***************************************************************************)
(* Site (site.go).                                                         *)
(***************************************************************************)
NilTempl == [isNil |-> TRUE, names |-> {}]

\* the Site before NewSite has built it
NoSite ==
    [Src |-> <<>>, Dest |-> <<>>, Conf |-> [k \in {} |-> <<>>],
     posts |-> <<>>, pages |-> <<>>, files |-> <<>>, templ |-> NilTempl,
     ignore |-> [isNil |-> TRUE, list |-> <<>>]]

\* the posts of ps that carry the label l, in the order of ps
RECURSIVE Labelled(_, _, _)
Labelled(ps, field, l) ==
    IF ps = <<>> THEN <<>>
    ELSE (IF \E i \in DOMAIN Catalog[Head(ps)][field] : Catalog[Head(ps)][field][i] = l
          THEN <<Head(ps)>> ELSE <<>>) \o Labelled(Tail(ps), field, l)

\* Site.calculateCategories
calculateCategories(s) ==
    [s EXCEPT !.Conf = Set(s.Conf, "categories",
        [l \in UNION {{Catalog[s.posts[i]].cats[j] : j \in DOMAIN Catalog[s.posts[i]].cats} :
                          i \in DOMAIN s.posts} |-> Labelled(s.posts, "cats", l)])]

\* Site.calculateTags
calculateTags(s) ==
    [s EXCEPT !.Conf = Set(s.Conf, "tags",
        [l \in UNION {{Catalog[s.posts[i]].tags[j] : j \in DOMAIN Catalog[s.posts[i]].tags} :
                          i \in DOMAIN s.posts} |-> Labelled(s.posts, "tags", l)])]

\* the walker of Site.read applied to the files fs in walk order: the Site,
\* the template files found so far and whether the walk stopped on an error
RECURSIVE readWalk(_, _, _)
readWalk(s, layouts, fs) ==
    IF fs = <<>> THEN [err |-> FALSE, site |-> s, layouts |-> layouts]
    ELSE LET id == Head(fs)
             rel == Catalog[id].rel
         IN CASE isHiddenOrTemp(rel) -> readWalk(s, layouts, Tail(fs))
              [] isTemplate(rel) -> readWalk(s, layouts \cup {id}, Tail(fs))
              [] isPost(rel) ->
                    IF ParseFails(id) THEN [err |-> TRUE, site |-> s, layouts |-> layouts]
                    ELSE readWalk([s EXCEPT !.posts = <<id>> \o @], layouts, Tail(fs))
              [] isPage(rel) ->
                    IF ParseFails(id) THEN [err |-> TRUE, site |-> s, layouts |-> layouts]
                    ELSE readWalk([s EXCEPT !.pages = Append(@, id)], layouts, Tail(fs))
              [] isStatic(rel) ->
                    readWalk([s EXCEPT !.files = Append(@, rel)], layouts, Tail(fs))
              [] OTHER -> readWalk(s, layouts, Tail(fs))

\* Site.read over the source tree src at time now
read(s, src, now) ==
    LET w == readWalk(s, {}, WalkSrc(src))
        bad == \E id \in w.layouts : Catalog[id].bad
        s1 == IF w.layouts = {} THEN w.site
              ELSE [w.site EXCEPT !.templ =
                       IF bad THEN NilTempl
                       ELSE [isNil |-> FALSE,
                             names |-> {Base(Catalog[id].rel) : id \in w.layouts}]]
        s2 == [s1 EXCEPT !.Conf = Set(Set(s1.Conf, "posts", s1.posts), "time", now)]
    IN IF w.err THEN [err |-> TRUE, site |-> w.site]
       ELSE IF bad THEN [err |-> TRUE, site |-> s1]
       ELSE [err |-> FALSE, site |-> calculateCategories(calculateTags(s2))]

\* a Reload that starts from an empty configuration, as NewSite does
ReloadDropConf(s, src, now) ==
    read([s EXCEPT !.posts = <<>>, !.pages = <<>>, !.files = <<>>, !.templ = NilTempl,
                   !.Conf = [k \in {} |-> <<>>]],
         src, now)

\* Site.Reload
Reload(s, src, now) ==
    read([s EXCEPT !.posts = <<>>, !.pages = <<>>, !.files = <<>>, !.templ = NilTempl],
         src, now)

\* NewSite(src, dest) with the parsed _config.yaml conf
NewSite(src, dest, conf, tree, now) ==
    LET site == [Src |-> src,
                 Dest |-> IF IsUnset(conf, "dest") THEN dest ELSE GetString(conf, "dest"),
                 Conf |-> conf,
                 posts |-> <<>>, pages |-> <<>>, files |-> <<>>, templ |-> NilTempl,
                 ignore |-> GetStrings(conf, "destignore")]
    IN read(site, tree, now)

\* Site.matchIgnore
matchIgnore(s, rel) ==
    \E i \in DOMAIN s.ignore.list : HasPrefix(rel, s.ignore.list[i])

\* a walker that removes stale directories but leaves stale files
prepWalkerKeepFiles(s, t, fn) ==
    CASE fn = <<>> -> [ret |-> "nil", tree |-> t]
      [] fn # <<>> /\ matchIgnore(s, fn) /\ t[fn].dir -> [ret |-> "SkipDir", tree |-> t]
      [] fn # <<>> /\ ~matchIgnore(s, fn) /\ t[fn].dir ->
            [ret |-> "nil", tree |-> RemoveAll(t, fn)]
      [] OTHER -> [ret |-> "nil", tree |-> t]

\* the walker of Site.prep applied to the entry fn of the tree t: what it
\* returns to filepath.Walk and the tree it leaves
prepWalker(s, t, fn) ==
    CASE fn = <<>> -> [ret |-> "nil", tree |-> t]
      [] fn # <<>> /\ matchIgnore(s, fn) /\ t[fn].dir -> [ret |-> "SkipDir", tree |-> t]
      [] fn # <<>> /\ matchIgnore(s, fn) /\ ~t[fn].dir -> [ret |-> "nil", tree |-> t]
      [] fn # <<>> /\ ~matchIgnore(s, fn) /\ t[fn].dir ->
            [ret |-> "nil", tree |-> RemoveAll(t, fn)]
      [] OTHER ->
            [ret |-> IF Remove(t, fn).err THEN "err" ELSE "nil", tree |-> Remove(t, fn).tree]

\* filepath.Walk(fn, walker) of Site.prep: the walker is called on fn, then,
\* unless it returned SkipDir or removed fn, on the entries of fn in lexical
\* order; the first error stops the walk
RECURSIVE prepWalk(_, _, _)
RECURSIVE prepWalkEach(_, _, _)
RECURSIVE prepWalkNext(_, _, _)

\* the walk of the entries ps after the walk of the one before them ended as c
prepWalkNext(s, c, ps) == IF c.err THEN c ELSE prepWalkEach(s, c.tree, ps)

\* the walk of the entries ps of a directory, in order
prepWalkEach(s, t, ps) ==
    IF ps = <<>> THEN [err |-> FALSE, tree |-> t]
    ELSE prepWalkNext(s, prepWalk(s, t, Head(ps)), Tail(ps))

\* the walk below fn after the walker returned r for it
prepWalkInto(s, r, fn) ==
    IF r.ret = "err" THEN [err |-> TRUE, tree |-> r.tree]
    ELSE IF r.ret = "SkipDir" \/ fn \notin DOMAIN r.tree \/ ~r.tree[fn].dir
    THEN [err |-> FALSE, tree |-> r.tree]
    ELSE prepWalkEach(s, r.tree, SortPaths(Children(r.tree, fn)))

prepWalk(s, t, fn) == prepWalkInto(s, prepWalker(s, t, fn), fn)

\* Site.prep once os.MkdirAll(s.Dest) has returned m
prepAfterMkdir(s, t, m) ==
    IF m.err THEN [err |-> TRUE, tree |-> t]
    ELSE IF s.ignore.isNil THEN [err |-> FALSE, tree |-> RemoveAll(m.tree, <<>>)]
    ELSE prepWalk(s, m.tree, <<>>)

\* Site.prep
prep(s, t) == prepAfterMkdir(s, t, MkdirAll(t, <<>>))

\* the url of an item, with index.html appended when it ends in "/"
pageUrl(id) ==
    IF Catalog[id].url # <<>> /\ Catalog[id].url[Len(Catalog[id].url)] = "/"
    THEN Catalog[id].url \o IndexHtml ELSE Catalog[id].url

\* the item has no layout, or the "nil" layout
Unwrapped(id) == Catalog[id].layout = NoLayout \/ Catalog[id].layout = <<"n", "i", "l">>

\* the template set after a non-markdown item has been parsed into it
templWith(s, id) ==
    IF Catalog[id].md \/ s.templ.isNil THEN s.templ
    ELSE [s.templ EXCEPT !.names = @ \cup {pageUrl(id)}]

\* what writePages writes for the item id: the body alone when it has no
\* layout, the layout's output when the layout is in the template set, and
\* nothing (the error of ExecuteTemplate is dropped) when it is not
rendered(s, id) ==
    IF Unwrapped(id) THEN Content("page", id, NoLayout, 0, <<>>)
    ELSE IF appendExt(Catalog[id].layout, HtmlExt) \in templWith(s, id).names
    THEN Content("page", id, appendExt(Catalog[id].layout, HtmlExt), 0, <<>>)
    ELSE Content("empty", id, NoLayout, 0, <<>>)

\* the end of the loop body: ioutil.WriteFile returned w
writePageDone(s, id, w) ==
    [err |-> w.err, panic |-> FALSE, tree |-> w.tree,
     site |-> [s EXCEPT !.templ = templWith(s, id)]]

\* the loop body after os.MkdirAll returned m
writePageIn(s, t, id, m) ==
    IF m.err THEN [err |-> TRUE, panic |-> FALSE, tree |-> t, site |-> s]
    ELSE IF ~Catalog[id].md /\ s.templ.isNil
    THEN [err |-> TRUE, panic |-> FALSE, tree |-> m.tree, site |-> s]
    ELSE IF ~Unwrapped(id) /\ s.templ.isNil
    THEN [err |-> TRUE, panic |-> TRUE, tree |-> m.tree, site |-> s]
    ELSE writePageDone(s, id, WriteFile(m.tree, pageUrl(id), rendered(s, id)))

\* the body of the loop of Site.writePages for the item id
writePage(s, t, id) == writePageIn(s, t, id, MkdirAll(t, Dir(pageUrl(id))))

\* the loop of Site.writePages over the items ps, feed entries so far es
RECURSIVE writeLoop(_, _, _, _)
RECURSIVE writeLoopNext(_, _, _)

\* the loop after its body returned r for the first item of ps
writeLoopNext(r, ps, es) ==
    IF r.err
    THEN [err |-> TRUE, panic |-> r.panic, tree |-> r.tree, site |-> r.site, entries |-> es]
    ELSE writeLoop(r.site, r.tree, Tail(ps),
                   IF Catalog[Head(ps)].date # 0 THEN Append(es, Head(ps)) ELSE es)

writeLoop(s, t, ps, es) ==
    IF ps = <<>> THEN [err |-> FALSE, panic |-> FALSE, tree |-> t, site |-> s, entries |-> es]
    ELSE writeLoopNext(writePage(s, t, Head(ps)), ps, es)

\* the feed is written: ioutil.WriteFile returned w
writeFeedDone(l, w) == [err |-> w.err, panic |-> FALSE, tree |-> w.tree, site |-> l.site]

\* Site.writePages after its loop ended as l
writeFeed(l, now) ==
    IF l.err THEN [err |-> TRUE, panic |-> l.panic, tree |-> l.tree, site |-> l.site]
    ELSE writeFeedDone(l, WriteFile(l.tree, feedPath,
                                    Content("feed", 0, NoLayout, now, l.entries)))

\* Site.writePages at time now
writePages(s, t, now) == writeFeed(writeLoop(s, t, s.pages \o s.posts, <<>>), now)

\* copyTo(from, to) after the parent directory was made: fails when the
\* source file is gone or the target cannot be created
copyToIn(src, t, rel, m) ==
    IF IdOf(rel) \notin src \/ m.err THEN [err |-> TRUE, tree |-> t]
    ELSE WriteFile(m.tree, rel, Content("static", IdOf(rel), NoLayout, 0, <<>>))

copyTo(src, t, rel) == copyToIn(src, t, rel, MkdirAll(t, Dir(rel)))

\* Site.writeStatic
RECURSIVE staticLoop(_, _, _)
RECURSIVE staticLoopNext(_, _, _)

staticLoopNext(src, c, fs) == IF c.err THEN c ELSE staticLoop(src, c.tree, fs)

staticLoop(src, t, fs) ==
    IF fs = <<>> THEN [err |-> FALSE, tree |-> t]
    ELSE staticLoopNext(src, copyTo(src, t, Head(fs)), Tail(fs))

writeStatic(s, src, t) == staticLoop(src, t, s.files)

\* Site.Generate after writeStatic returned f
generateDone(p, f) == [err |-> f.err, panic |-> FALSE, tree |-> f.tree, site |-> p.site]

\* Site.Generate after writePages returned p
generateStatic(src, p) ==
    IF p.err THEN p ELSE generateDone(p, writeStatic(p.site, src, p.tree))

\* Site.Generate after prep returned p
generatePages(s, src, p, now) ==
    IF p.err THEN [err |-> TRUE, panic |-> FALSE, tree |-> p.tree, site |-> s]
    ELSE generateStatic(src, writePages(s, p.tree, now))

\* Site.Generate
Generate(s, src, t, now) == generatePages(s, src, prep(s, t), now)

(***************************************************************************)
(* Deploy (site.go): the walker uploads one file, retrying once.           *)
(***************************************************************************)
\* the results of the calls of b.Put the walker makes for one file, when the
\* first call succeeds iff ok1 and a second call would succeed iff ok2
walkerPuts(ok1, ok2) == IF ok1 THEN <<TRUE>> ELSE <<FALSE, ok2>>

\* a walker that returns the error of the first call although it retried
walkerErrFirst(ok1, ok2) == ~ok1

\* whether the walker returns an error for the file
walkerErr(ok1, ok2) == ~ok1 /\ ~ok2

\* a walk that goes on after the walker returned an error
walkRestAlways(queue, err) == Tail(queue)

\* the files filepath.Walk still visits after the walker returned for the
\* first file of queue
walkRest(queue, err) == IF err THEN <<>> ELSE Tail(queue)

(***************************************************************************)
(* sync.RWMutex mu: w is true while the writer holds it, wwait while a      *)
(* writer has called Lock and waits for the readers, r counts the readers. *)
(***************************************************************************)
FreeMutex == [w |-> FALSE, wwait |-> FALSE, r |-> 0]

\* an RLock that only yields to a writer that is still waiting
CanRLockDuringWrite(m) == ~m.wwait

\* mu.RLock can return
CanRLock(m) == ~m.w /\ ~m.wwait
RLock(m) == [m EXCEPT !.r = @ + 1]
RUnlock(m) == [m EXCEPT !.r = @ - 1]
\* mu.Lock can return
CanLock(m) == ~m.w /\ m.r = 0
Lock(m) == [m EXCEPT !.w = TRUE, !.wwait = FALSE]
Unlock(m) == [m EXCEPT !.w = FALSE]

(***************************************************************************)
(* The environment: flags, the configuration file, the trees on disk.      *)
(***************************************************************************)
\* filepath.Abs(*source) and filepath.Abs(*destination): the destination
\* defaults to _site inside the source directory
SrcDir == <<"/", "s">>
FlagDest == <<"/", "s", "/", "o">>

\* the absolute path of the source file rel
AbsSrc(rel) == SrcDir \o <<"/">> \o rel

\* the absolute path of the destination-relative path rel when the
\* destination is d; a relative d is resolved against the working
\* directory, which main sets to the source directory
AbsDest(d, rel) ==
    (IF d # <<>> /\ Head(d) = "/" THEN d ELSE SrcDir \o <<"/">> \o d) \o <<"/">> \o rel

\* a destination directory that holds files from before jkl ran
OldTree ==
    [p \in {<<>>, <<".", "g">>, <<".", "g", "/", "c">>, <<"k">>, <<"k", "/", "b">>,
            <<"k", "/", "b", "/", "x">>, <<"s", "t">>} |->
        IF p \in {<<>>, <<".", "g">>, <<"k">>, <<"k", "/", "b">>} THEN DirEntry ELSE OldFile]

InitTrees == {NoTree, OldTree}

\* the contents of _config.yaml
EmptyConf == [k \in {} |-> <<>>]
ConfigFiles ==
    {Set(c, "title", <<"t">>) : c \in
        {EmptyConf,
         Set(EmptyConf, "destignore", << <<".", "g">> >>),
         Set(EmptyConf, "destignore", << <<"k", "/", "b">> >>),
         Set(Set(Set(EmptyConf, "destignore", << <<".", "g">> >>), "dest", <<"o">>),
             "baseurl", <<"v">>)}}

InitSrcs == {{1, 2, 3, 5, 6, 7}, {1, 2, 3, 7}}

\* the source trees of a one-shot run: those above, a site with a page that
\* carries a date and names a layout no template file provides, a site with
\* an html page and no templates, a site with no pages and no posts, and a
\* site with a malformed page
OneShotSrcs == InitSrcs \cup {{1, 2, 3, 7, 9}, {3, 5, 7}, {1, 7}, {1, 4, 7}}

\* the source files the user creates, deletes or saves while jkl watches: the
\* template, a post, the malformed page and an editor's hidden file
Edited == {1, 3, 4, 8}

VARIABLES
    flags,      \* the command line: auto, server, deploy, baseurl
    configFile, \* the parsed _config.yaml
    srcTree,    \* the source files present (catalog ids)
    destTree,   \* the destination tree
    site,       \* the Site
    mu,         \* the RWMutex
    mainpc,     \* where main is
    watchpc,    \* where the watch goroutine is
    hpc,        \* where each request handler is
    events,     \* watcher.Event: the notifications not yet received
    edits,      \* the number of source edits made so far
    clock,      \* the wall clock
    proc,       \* "running", "exit0", "exit1" or "panic"
    queue,      \* Deploy: the files the walk has yet to visit
    uploads,    \* Deploy: the calls of b.Put made, in order
    rebuild,    \* history: the rebuild in progress or last finished, the
                \* number of calls of recompile that have not returned and
                \* whether the last Reload failed
    gens        \* history: the last two runs of Generate

vars == <<flags, configFile, srcTree, destTree, site, mu, mainpc, watchpc, hpc, events,
          edits, clock, proc, queue, uploads, rebuild, gens>>

NoRebuild ==
    [state |-> "none", cause |-> <<>>, tree |-> NoTree, site |-> NoSite, running |-> 0,
     scanFailed |-> FALSE]

\* the times time.Now() can return in writePages: time may have passed since
\* the clock was last read
Nows == {t \in {clock, clock + 1} : t <= MaxClock}

\* the ContentStore of a Site
ContentStore(s) ==
    [posts |-> s.posts, pages |-> s.pages, files |-> s.files, templ |-> s.templ,
     Conf |-> s.Conf]

\* the record of a run of Generate on the Site s that returned g
GenRecord(s, p, g) ==
    [ok |-> ~g.err, store |-> ContentStore(s), src |-> srcTree, before |-> destTree,
     prepErr |-> p.err, prepped |-> p.tree, tree |-> g.tree, site |-> g.site]

InitWith(fl, srcs) ==
    /\ flags \in fl
    /\ configFile \in ConfigFiles
    /\ srcTree \in srcs
    /\ destTree \in InitTrees
    /\ site = NoSite
    /\ mu = FreeMutex
    /\ mainpc = "NewSite"
    /\ watchpc = "off"
    /\ hpc = [h \in Handlers |-> "idle"]
    /\ events = <<>>
    /\ edits = 0
    /\ clock = 0
    /\ proc = "running"
    /\ queue = <<>>
    /\ uploads = <<>>
    /\ rebuild = NoRebuild
    /\ gens = <<>>

\* jkl -auto -server, and jkl -auto -base-url u
Init ==
    InitWith([auto : {TRUE}, server : {TRUE}, deploy : {FALSE}, baseurl : {<<>>}]
             \cup [auto : {TRUE}, server : {FALSE}, deploy : {FALSE}, baseurl : {<<"u">>}],
             InitSrcs)

\* a one-shot run with -s3, alone or followed by the watcher and the server
InitDeploy ==
    InitWith([auto : {FALSE}, server : {FALSE}, deploy : {TRUE}, baseurl : {<<>>}]
             \cup [auto : {TRUE}, server : {TRUE}, deploy : {TRUE}, baseurl : {<<>>}],
             OneShotSrcs)

(***************************************************************************)
(* main (main.go).                                                         *)
(***************************************************************************)
\* lines 73-76: the -base-url flag replaces the baseurl of the configuration
\* when it is given, and stands in for it when the configuration has none
setBaseurl(s, baseurl) ==
    IF baseurl # <<>> \/ IsUnset(s.Conf, "baseurl")
    THEN [s EXCEPT !.Conf = Set(@, "baseurl", baseurl)]
    ELSE s

\* lines 66-76: NewSite, then the base-url flag
MainNewSite ==
    /\ proc = "running" /\ mainpc = "NewSite"
    /\ LET r == NewSite(SrcDir, FlagDest, configFile, srcTree, clock)
       IN    IF r.err
                THEN /\ proc' = "exit1"
                     /\ UNCHANGED <<site, mainpc>>
                ELSE /\ site' = setBaseurl(r.site, flags.baseurl)
                     /\ mainpc' = "Generate"
                     /\ proc' = proc
    /\ UNCHANGED <<flags, configFile, srcTree, destTree, mu, watchpc, hpc, events, edits,
                   clock, queue, uploads, rebuild, gens>>

\* the last two records of gs followed by g
Remember(gs, g) == IF Len(gs) < 2 THEN Append(gs, g) ELSE <<gs[2], g>>

\* a main that goes on after Generate returned an error
mainGeneratedGoesOn(g) == [proc |-> "running", pc |-> "Deploy"]

\* lines 78-82: main after Generate returned g: os.Exit(1) on an error
mainGenerated(g) ==
    [proc |-> IF g.panic THEN "panic" ELSE IF g.err THEN "exit1" ELSE "running",
     pc |-> IF g.err THEN "Generate" ELSE "Deploy"]

\* lines 78-82: the initial Generate
MainGenerate ==
    /\ proc = "running" /\ mainpc = "Generate"
    /\ \E now \in Nows : \E p \in {prep(site, destTree)} :
       \E g \in {generatePages(site, srcTree, p, now)} :
             /\ clock' = now
             /\ destTree' = g.tree
             /\ site' = g.site
             /\ gens' = Remember(gens, GenRecord(site, p, g))
             /\ proc' = mainGenerated(g).proc
             /\ mainpc' = mainGenerated(g).pc
    /\ UNCHANGED <<flags, configFile, srcTree, mu, watchpc, hpc, events, edits,
                   queue, uploads, rebuild>>

\* lines 84-106 and 368-398: Deploy starts its walk of the destination
MainDeploy ==
    /\ proc = "running" /\ mainpc = "Deploy"
    /\ IF flags.deploy
       THEN /\ queue' = WalkFiles(destTree, <<>>)
            /\ mainpc' = "Upload"
       ELSE /\ mainpc' = "Start"
            /\ queue' = queue
    /\ UNCHANGED <<flags, configFile, srcTree, destTree, site, mu, watchpc, hpc, events,
                   edits, clock, proc, uploads, rebuild, gens>>

\* lines 374-396: the walker of Deploy on the next file; when the walk stops
\* on the walker's error Deploy returns it and main exits (lines 102-105)
DeployFile ==
    /\ proc = "running" /\ mainpc = "Upload"
    /\ IF queue = <<>>
       THEN /\ mainpc' = "Start"
            /\ UNCHANGED <<queue, uploads, proc>>
       ELSE \E ok1, ok2 \in BOOLEAN :
              LET puts == walkerPuts(ok1, ok2)
                  err == walkerErr(ok1, ok2)
              IN /\ uploads' = uploads \o
                        [i \in 1..Len(puts) |-> [key |-> Head(queue), ok |-> puts[i]]]
                 /\ queue' = walkRest(queue, err)
                 /\ proc' = IF err /\ walkRest(queue, err) = <<>> THEN "exit1" ELSE proc
                 /\ mainpc' = mainpc
    /\ UNCHANGED <<flags, configFile, srcTree, destTree, site, mu, watchpc, hpc, events,
                   edits, clock, rebuild, gens>>

\* lines 108-147: go watch(site) when -auto; the server when -server,
\* os.Exit(0) otherwise
MainStart ==
    /\ proc = "running" /\ mainpc = "Start"
    /\ watchpc' = IF flags.auto THEN "start" ELSE watchpc
    /\ mainpc' = IF flags.server THEN "Serve" ELSE "Exit"
    /\ UNCHANGED <<flags, configFile, srcTree, destTree, site, mu, hpc, events,
                   edits, clock, proc, queue, uploads, rebuild, gens>>

\* line 147: os.Exit(0) ends the process and its goroutines
MainExit ==
    /\ proc = "running" /\ mainpc = "Exit"
    /\ proc' = "exit0"
    /\ UNCHANGED <<flags, configFile, srcTree, destTree, site, mu, mainpc, watchpc, hpc,
                   events, edits, clock, queue, uploads, rebuild, gens>>

(***************************************************************************)
(* The preview server's handler (main.go:122-136).                         *)
(***************************************************************************)
\* mu.RLock()
HandlerRLock(h) ==
    /\ proc = "running" /\ mainpc = "Serve"
    /\ hpc[h] = "idle"
    /\ CanRLock(mu)
    /\ mu' = RLock(mu)
    /\ hpc' = [hpc EXCEPT ![h] = "serving"]
    /\ UNCHANGED <<flags, configFile, srcTree, destTree, site, mainpc, watchpc, events,
                   edits, clock, proc, queue, uploads, rebuild, gens>>

\* reads site.Conf, serves the file, then the deferred mu.RUnlock()
HandlerServe(h) ==
    /\ proc = "running"
    /\ hpc[h] = "serving"
    /\ mu' = RUnlock(mu)
    /\ hpc' = [hpc EXCEPT ![h] = "idle"]
    /\ UNCHANGED <<flags, configFile, srcTree, destTree, site, mainpc, watchpc, events,
                   edits, clock, proc, queue, uploads, rebuild, gens>>

(***************************************************************************)
(* watch and recompile (main.go:150-194).                                  *)
(***************************************************************************)
\* a notification is queued unless the same one is already waiting
Notify(q, ev) == IF \E i \in DOMAIN q : q[i] = ev THEN q ELSE Append(q, ev)

RECURSIVE NotifyAll(_, _)
NotifyAll(q, evs) == IF evs = <<>> THEN q ELSE NotifyAll(Notify(q, Head(evs)), Tail(evs))

\* the watcher is set up once watch has passed line 165
Watching == watchpc \notin {"off", "start"}

\* lines 152-165: the watcher is created and the directories are watched
WatchStart ==
    /\ proc = "running" /\ watchpc = "start"
    /\ watchpc' = "select"
    /\ UNCHANGED <<flags, configFile, srcTree, destTree, site, mu, mainpc, hpc, events,
                   edits, clock, proc, queue, uploads, rebuild, gens>>

\* line 171: the notification ev starts a rebuild
Triggers(s, ev) == ~HasPrefix(ev, s.Dest) /\ ~isHiddenOrTemp(ev)

\* a watch that hands each rebuild to a goroutine of its own and goes back to
\* the select at once
AtSelectOrBusy(pc) == pc \in {"select", "Lock", "Reload", "Generate"}

\* lines 167-177: watch is at its select; it calls recompile itself and comes
\* back to the select when recompile has returned
AtSelect(pc) == pc = "select"

\* lines 169-174: a notification is received; recompile calls mu.Lock()
WatchEvent ==
    /\ proc = "running" /\ AtSelect(watchpc)
    /\ events # <<>>
    /\ events' = Tail(events)
    /\ IF Triggers(site, Head(events))
       THEN /\ watchpc' = "Lock"
            /\ mu' = [mu EXCEPT !.wwait = TRUE]
            /\ rebuild' = [rebuild EXCEPT !.state = "waiting", !.cause = Head(events),
                                          !.running = @ + 1]
       ELSE UNCHANGED <<watchpc, mu, rebuild>>
    /\ UNCHANGED <<flags, configFile, srcTree, destTree, site, mainpc, hpc,
                   edits, clock, proc, queue, uploads, gens>>

\* line 182: mu.Lock() returns
RecompileLock ==
    /\ proc = "running" /\ watchpc = "Lock"
    /\ CanLock(mu)
    /\ mu' = Lock(mu)
    /\ watchpc' = "Reload"
    /\ rebuild' = [rebuild EXCEPT !.state = "reloading", !.tree = destTree, !.site = site]
    /\ UNCHANGED <<flags, configFile, srcTree, destTree, site, mainpc, hpc, events,
                   edits, clock, proc, queue, uploads, gens>>

\* lines 185-188: site.Reload(); on an error, print it and return
RecompileReload ==
    /\ proc = "running" /\ watchpc = "Reload"
    /\ LET r == Reload(site, srcTree, clock)
       IN    /\ site' = r.site
             /\ IF r.err
                THEN /\ watchpc' = "select"
                     /\ mu' = Unlock(mu)
                     /\ rebuild' = [rebuild EXCEPT !.state = "reloadFailed",
                                                   !.running = @ - 1,
                                                   !.scanFailed = TRUE]
                ELSE /\ watchpc' = "Generate"
                     /\ mu' = mu
                     /\ rebuild' = [rebuild EXCEPT !.state = "generating",
                                                   !.scanFailed = FALSE]
    /\ UNCHANGED <<flags, configFile, srcTree, destTree, mainpc, hpc, events,
                   edits, clock, proc, queue, uploads, gens>>

\* the notification caused by the files Generate wrote into the tree t: one
\* notification, for the first file written, stands for the batch
RECURSIVE WriteEvents(_, _, _)
WriteEvents(s, t, fs) ==
    IF fs = <<>> THEN <<>>
    ELSE IF t[Head(fs)].content.kind \in {"page", "empty", "feed", "static"}
    THEN <<AbsDest(s.Dest, Head(fs))>>
    ELSE WriteEvents(s, t, Tail(fs))

\* lines 190-193: site.Generate(); print an error; the deferred mu.Unlock()
RecompileGenerate ==
    /\ proc = "running" /\ watchpc = "Generate"
    /\ \E now \in Nows : \E p \in {prep(site, destTree)} :
       \E g \in {generatePages(site, srcTree, p, now)} :
             /\ clock' = now
             /\ destTree' = g.tree
             /\ site' = g.site
             /\ gens' = Remember(gens, GenRecord(site, p, g))
             /\ events' = NotifyAll(events, WriteEvents(site, g.tree, WalkFiles(g.tree, <<>>)))
             /\ proc' = IF g.panic THEN "panic" ELSE proc
             /\ rebuild' = [rebuild EXCEPT !.state =
                               IF g.panic THEN "panicked"
                               ELSE IF g.err THEN "generateFailed" ELSE "done",
                                           !.running = IF g.panic THEN @ ELSE @ - 1]
    /\ watchpc' = "select"
    /\ mu' = Unlock(mu)
    /\ UNCHANGED <<flags, configFile, srcTree, mainpc, hpc, edits, queue, uploads>>

(***************************************************************************)
(* The user edits the source tree: a file is created or deleted.           *)
(***************************************************************************)
UserEdit ==
    /\ proc = "running" /\ watchpc # "off"
    /\ edits < MaxEdits
    /\ \E id \in Edited :
          /\ srcTree' = IF id \in srcTree THEN srcTree \ {id} ELSE srcTree \cup {id}
          /\ events' = IF Watching THEN Notify(events, AbsSrc(Catalog[id].rel)) ELSE events
    /\ edits' = edits + 1
    /\ UNCHANGED <<flags, configFile, destTree, site, mu, mainpc, watchpc, hpc,
                   clock, proc, queue, uploads, rebuild, gens>>

\* the user saves a source file without changing what it holds: the watcher
\* reports the truncation and the write, two notifications for the same name
UserTouch ==
    /\ proc = "running" /\ Watching
    /\ edits < MaxEdits
    /\ \E id \in srcTree \cap Edited :
          events' = events \o <<AbsSrc(Catalog[id].rel), AbsSrc(Catalog[id].rel)>>
    /\ edits' = edits + 1
    /\ UNCHANGED <<flags, configFile, srcTree, destTree, site, mu, mainpc, watchpc, hpc,
                   clock, proc, queue, uploads, rebuild, gens>>

Next ==
    \/ MainNewSite
    \/ MainGenerate
    \/ MainDeploy
    \/ MainStart
    \/ MainExit
    \/ \E h \in Handlers : HandlerRLock(h)
    \/ \E h \in Handlers : HandlerServe(h)
    \/ WatchStart
    \/ WatchEvent
    \/ RecompileLock
    \/ RecompileReload
    \/ RecompileGenerate
    \/ UserEdit
    \/ UserTouch

Spec == Init /\ [][Next]_vars

NextDeploy ==
    \/ MainNewSite
    \/ MainGenerate
    \/ MainDeploy
    \/ DeployFile
    \/ MainStart
    \/ MainExit
    \/ WatchStart

SpecDeploy == InitDeploy /\ [][NextDeploy]_vars

(***************************************************************************)
(* Properties.                                                             *)
(***************************************************************************)
\* the last run of Generate
LastGen == gens[Len(gens)]

\* C1: while a watch-triggered rebuild is between the start of Reload and
\* the return of Generate, no handler is inside its read-locked section
NoReadDuringRebuild ==
    watchpc \in {"Reload", "Generate"} => \A h \in Handlers : hpc[h] # "serving"

\* a rebuild holds the lock, between Reload and the return of Generate, while
\* the preview server is up and its handlers compete for the lock
RebuildWhileServing ==
    /\ watchpc = "Generate"
    /\ mainpc = "Serve"
    /\ mu.w

\* C2: every path that exists before Generate and whose destination-relative
\* path matches an ignore prefix still exists, unchanged, after prep
IgnoredPathsSurvivePrep ==
    gens # <<>> /\ ~LastGen.prepErr =>
        \A p \in DOMAIN LastGen.before :
            p # <<>> /\ matchIgnore(site, p) =>
                p \in DOMAIN LastGen.prepped /\ LastGen.prepped[p] = LastGen.before[p]

\* the files a run of Generate on the Site s writes, and the directories it
\* makes for them
Written(s) ==
    UNION {Ancestors(p) : p \in {pageUrl((s.pages \o s.posts)[i]) : i \in DOMAIN (s.pages \o s.posts)}
                                \cup {feedPath}
                                \cup {s.files[i] : i \in DOMAIN s.files}}

\* C3: after a successful Generate the destination holds no path from before
\* that neither matches an ignore prefix nor was written by this run
NoStaleOutput ==
    gens # <<>> /\ LastGen.ok =>
        \A p \in DOMAIN LastGen.tree :
            \/ matchIgnore(LastGen.site, p)
            \/ /\ p \in Written(LastGen.site)
               /\ LastGen.tree[p].content.kind # "old"

\* a successful Generate after which a file rendered by an earlier run, for
\* an item that is no longer in the source, is gone
StaleOutputRemoved ==
    /\ gens # <<>> /\ LastGen.ok
    /\ \E p \in DOMAIN LastGen.before :
          /\ LastGen.before[p].content.kind \in {"page", "static"}
          /\ p \notin DOMAIN LastGen.tree

\* C4: after a failed watch-triggered rebuild the destination tree is the
\* tree that was in place before the rebuild began
FailedRebuildKeepsTree ==
    rebuild.state \in {"reloadFailed", "generateFailed"} => destTree = rebuild.tree

\* C5: after a failed Reload the posts, pages, static files, templates and
\* configuration of the Site are what they were before the Reload
FailedReloadKeepsSite ==
    rebuild.state = "reloadFailed" => ContentStore(site) = ContentStore(rebuild.site)

\* C6: a watch-triggered rebuild never terminates the process
RebuildNeverEndsProcess ==
    ~(proc = "panic" /\ rebuild.state = "panicked")

\* C7: a Generate that runs right after a successful Generate, on the same
\* ContentStore and the same source tree, succeeds and leaves the same tree
GenerateIdempotent ==
    /\ Len(gens) = 2
    /\ gens[1].ok
    /\ gens[2].before = gens[1].tree
    /\ gens[2].store = gens[1].store
    /\ gens[2].src = gens[1].src
    => gens[2].ok /\ gens[2].tree = gens[1].tree

\* the positions of uploads at which the file k was put
Attempts(k) == {i \in DOMAIN uploads : uploads[i].key = k}

\* the files of the destination tree
DestFiles == {p \in DOMAIN destTree : ~destTree[p].dir}

\* Deploy has returned nil
DeploySucceeded == flags.deploy /\ mainpc \in {"Start", "Serve", "Exit"}

\* Deploy has returned an error
DeployFailed == flags.deploy /\ mainpc = "Upload" /\ proc = "exit1"

\* the last call of b.Put for the file k failed
EndsInFailure(k) ==
    Attempts(k) # {} /\ \E i \in Attempts(k) : ~uploads[i].ok /\ \A j \in Attempts(k) : j <= i

\* C8: a file is put at most twice, a second time only when the first put
\* failed; a failure followed by a success does not stop Deploy, which
\* succeeds when every file ends in a success and fails when both puts of
\* a file fail
RetryOnce ==
    /\ \A k \in DestFiles :
          /\ Cardinality(Attempts(k)) <= 2
          /\ \A i, j \in Attempts(k) : i < j => ~uploads[i].ok
          /\ EndsInFailure(k) => DeployFailed
    /\ DeployFailed => \E k \in DestFiles : EndsInFailure(k)
    /\ DeploySucceeded =>
          \A k \in DestFiles : Attempts(k) # {} /\ ~EndsInFailure(k)

\* Deploy has succeeded although the first put of some file failed
RetrySucceeded ==
    /\ DeploySucceeded
    /\ \E k \in DestFiles : \E i \in Attempts(k) : ~uploads[i].ok

\* C9: once both puts of a file have failed no other file is put: the two
\* failures are the last entries of uploads and Deploy has failed
StopAtFirstFailure ==
    \A i \in DOMAIN uploads :
        i > 1 /\ uploads[i - 1].key = uploads[i].key /\ ~uploads[i].ok =>
            i = Len(uploads) /\ DeployFailed

\* Deploy has failed on a file while files were left to upload
FailedBeforeLastFile ==
    /\ DeployFailed
    /\ \E k \in DestFiles : Attempts(k) = {}
    /\ \E k \in DestFiles : Cardinality(Attempts(k)) = 2

\* the notification ev is for a path inside the destination tree of s
InsideDest(s, ev) == \E rel \in {<<>>} \cup DOMAIN destTree : ev = AbsDest(s.Dest, rel)

\* C10: a notification for a path inside the destination tree, or for a
\* hidden or temporary path, never starts a rebuild
DestEventsNeverRebuild ==
    rebuild.state # "none" =>
        ~InsideDest(site, rebuild.cause) /\ ~isHiddenOrTemp(rebuild.cause)

\* the last scan (NewSite or a Reload) has succeeded and its result is the Site
Scanned == mainpc # "NewSite" /\ ~rebuild.scanFailed

\* C11: after every successful scan, a post with a later date precedes every
\* post with an earlier date in the post list
PostsNewestFirst ==
    Scanned =>
        \A i, j \in DOMAIN site.posts :
            Catalog[site.posts[i]].date > Catalog[site.posts[j]].date => i < j

\* the item id names a layout that the template set ts does not hold
LayoutMissing(ts, id) ==
    ~Unwrapped(id) /\ (ts.isNil \/ appendExt(Catalog[id].layout, HtmlExt) \notin ts.names)

\* C12: when an item names a layout that is not in the template set, or no
\* templates were compiled, Generate does not report success
MissingLayoutFailsGenerate ==
    gens # <<>> =>
        \A i \in DOMAIN (LastGen.store.pages \o LastGen.store.posts) :
            LayoutMissing(LastGen.store.templ, (LastGen.store.pages \o LastGen.store.posts)[i])
                => ~LastGen.ok

\* the initial Generate has returned nil
InitialGenerateOk == gens # <<>> /\ gens[1].ok

\* C15: an upload is made only after the initial Generate succeeded; when
\* NewSite or Generate fails the process ends in failure with no upload; the
\* watcher and the server start only after Generate, and Deploy when it was
\* asked for, have finished
OneShotOrder ==
    /\ (mainpc = "Upload" \/ uploads # <<>>) => InitialGenerateOk
    /\ (gens # <<>> /\ ~gens[1].ok) => proc \in {"exit1", "panic"} /\ uploads = <<>>
    /\ (mainpc = "NewSite" /\ proc # "running") => proc = "exit1" /\ uploads = <<>>
    /\ (watchpc # "off" \/ mainpc = "Serve") =>
          /\ InitialGenerateOk
          /\ flags.deploy => DeploySucceeded /\ queue = <<>>

\* the watcher and the server are up after a Deploy that uploaded files
StartedAfterDeploy ==
    /\ watchpc = "select" /\ mainpc = "Serve"
    /\ flags.deploy /\ uploads # <<>>

\* the destination holds its root directory and nothing else
EmptyRoot(t) == DOMAIN t = {<<>>} /\ t[<<>>].dir

\* C17: with no ignore list, prep leaves the destination root existing and
\* empty, and the Generate of a site with no pages and no posts succeeds
PrepLeavesEmptyRoot ==
    gens # <<>> /\ LastGen.site.ignore.isNil /\ ~LastGen.prepErr =>
        /\ EmptyRoot(LastGen.prepped)
        /\ LastGen.store.pages = <<>> /\ LastGen.store.posts = <<>> => LastGen.ok

\* the items of ps that have a non-zero date, in the order of ps
RECURSIVE Dated(_)
Dated(ps) ==
    IF ps = <<>> THEN <<>>
    ELSE (IF Catalog[Head(ps)].date # 0 THEN <<Head(ps)>> ELSE <<>>) \o Dated(Tail(ps))

\* C18: the feed written by a Generate has one entry per post with a non-zero
\* date, in the order of the post list, and no other entry
FeedHoldsPosts ==
    gens # <<>> /\ LastGen.ok =>
        LastGen.tree[feedPath].content.entries = Dated(LastGen.store.posts)

\* C13: at most one call of recompile is in progress, and a rebuild is
\* between its Reload and the return of Generate only inside that one call,
\* with the lock held
OneRebuildAtATime ==
    /\ rebuild.running <= 1
    /\ watchpc \in {"Reload", "Generate"} => rebuild.running = 1 /\ mu.w
    /\ watchpc \in {"off", "start", "select"} /\ proc # "panic" => rebuild.running = 0

\* a notification has started a rebuild after an earlier rebuild returned
SecondRebuildStarts ==
    /\ watchpc = "Lock" /\ rebuild.running = 1
    /\ rebuild.site # NoSite

\* C14: with -auto, a notification that starts a rebuild is never left
\* behind by the process: jkl does not exit normally while such a
\* notification waits or while the rebuild it started has not returned
NotificationsNotAbandoned ==
    flags.auto /\ proc = "exit0" =>
        /\ watchpc \notin {"Lock", "Reload", "Generate"}
        /\ \A i \in DOMAIN events : ~Triggers(site, events[i])

\* the labels posts can carry
Labels == {"a", "b", "t"}

\* the posts of the Site s whose field (tags or cats) holds the label l
PostsWith(s, field, l) ==
    SelectSeq(s.posts, LAMBDA id : \E i \in DOMAIN Catalog[id][field] : Catalog[id][field][i] = l)

\* the mapping m groups the posts of the Site s by the labels of field
GroupsPosts(s, m, field) ==
    \A l \in Labels :
        /\ l \in DOMAIN m <=> PostsWith(s, field, l) # <<>>
        /\ l \in DOMAIN m => m[l] = PostsWith(s, field, l)

\* C16: from start-up on, whatever Reloads have run, the posts key is the
\* post list and the tags and categories keys group exactly the posts of the
\* post list by label, in the order of the post list
AggregatesMatchPosts ==
    mainpc # "NewSite" =>
        /\ site.Conf["posts"] = site.posts
        /\ DOMAIN site.Conf["tags"] \subseteq Labels
        /\ DOMAIN site.Conf["categories"] \subseteq Labels
        /\ GroupsPosts(site, site.Conf["tags"], "tags")
        /\ GroupsPosts(site, site.Conf["categories"], "cats")

\* the keys the aggregator sets
Injected == {"posts", "tags", "categories", "time"}

\* the Site t has the roots, the ignore list and the configuration of the
\* Site s, but for the keys the aggregator sets
SameSettings(s, t) ==
    /\ t.Src = s.Src /\ t.Dest = s.Dest /\ t.ignore = s.ignore
    /\ DOMAIN t.Conf \ Injected = DOMAIN s.Conf \ Injected
    /\ \A k \in DOMAIN s.Conf \ Injected : t.Conf[k] = s.Conf[k]

\* C19: no step after start-up, Reload included, changes the source root,
\* the destination root, the ignore list or a configuration key other than
\* posts, tags, categories and time; a -base-url given on the command line
\* is the baseurl of the configuration from start-up on
ReloadKeepsSettings ==
    /\ [][mainpc # "NewSite" => SameSettings(site, site')]_vars
    /\ [](mainpc # "NewSite" /\ flags.baseurl # <<>>
             => GetString(site.Conf, "baseurl") = flags.baseurl)

\* a rebuild has finished while the command line overrides the baseurl of the
\* configuration file
OverrideAfterRebuild ==
    /\ rebuild.state = "done"
    /\ flags.baseurl = <<"u">>
    /\ GetString(configFile, "baseurl") = <<"v">>
    /\ GetString(site.Conf, "baseurl") = <<"u">>

====
